---- MODULE Spec2Model ----
(***************************************************************************)
(* A model of src/CachetAPI.js: the CachetAPI client class.  Every method  *)
(* of the class builds a path, issues one axios call inside a try block,   *)
(* turns a rejection into createError's Error, and unwraps the response.   *)
(*                                                                         *)
(* JavaScript values are tagged records, so that property access on        *)
(* undefined/null, truthiness, string conversion and JSON.stringify are    *)
(* computed the way the language computes them.                            *)
(***************************************************************************)
EXTENDS Integers, Sequences, FiniteSets, TLC

VARIABLES construction, client, calls, nCalls, nRequests, nLogged, service

vars == <<construction, client, calls, nCalls, nRequests, nLogged, service>>

(* The number of method invocations one behaviour makes. *)
MaxCalls == 3

-----------------------------------------------------------------------------
(* JavaScript values *)

Undefined == [t |-> "undefined"]
Null == [t |-> "null"]
Num(n) == [t |-> "number", v |-> n]
Str(s) == [t |-> "string", v |-> s]
Bool(b) == [t |-> "boolean", v |-> b]
Arr(seq) == [t |-> "array", v |-> seq]
(* An object literal: its own properties, in insertion order. *)
Obj(entries) == [t |-> "object", e |-> entries]
KV(key, value) == [k |-> key, v |-> value]

(* An Error instance: name comes from the prototype, message and response *)
(* are own properties (axios sets error.response on a non-2xx status).     *)
Err(name, message, response) ==
    [t |-> "error", name |-> name, message |-> message, response |-> response]

(* if (v): the falsy values are undefined, null, false, 0 and "". *)
Truthy(v) ==
    CASE v.t = "undefined" -> FALSE
      [] v.t = "null" -> FALSE
      [] v.t = "boolean" -> v.v
      [] v.t = "number" -> v.v # 0
      [] v.t = "string" -> v.v # ""
      [] OTHER -> TRUE

(* v.key throws a TypeError exactly when v is undefined or null. *)
CanRead(v) == v.t \notin {"undefined", "null"}

(* v.key for a readable v; a missing property reads as undefined. *)
Prop(v, key) ==
    CASE v.t = "object" ->
           LET idx == {i \in 1..Len(v.e) : v.e[i].k = key}
           IN  IF idx = {} THEN Undefined ELSE v.e[CHOOSE i \in idx : TRUE].v
      [] v.t = "error" ->
           CASE key = "response" -> v.response
             [] key = "message" -> Str(v.message)
             [] key = "name" -> Str(v.name)
             [] OTHER -> Undefined
      [] OTHER -> Undefined

(* The string a value becomes under "+" with a string operand. *)
ToStr(v) ==
    CASE v.t = "undefined" -> "undefined"
      [] v.t = "null" -> "null"
      [] v.t = "boolean" -> (IF v.v THEN "true" ELSE "false")
      [] v.t = "number" -> ToString(v.v)
      [] v.t = "string" -> v.v
      [] v.t = "error" ->
           (IF v.message = "" THEN v.name ELSE v.name \o ": " \o v.message)
      [] OTHER -> "[object Object]"

RECURSIVE JSONstringify(_)
RECURSIVE JoinJSON(_, _)
(* The members of an object or the elements of an array, comma separated. *)
JoinJSON(seq, keyed) ==
    IF seq = <<>> THEN ""
    ELSE LET one == IF keyed
                    THEN "\"" \o seq[1].k \o "\":" \o JSONstringify(seq[1].v)
                    ELSE JSONstringify(seq[1])
         IN  IF Len(seq) = 1 THEN one
             ELSE one \o "," \o JoinJSON(Tail(seq), keyed)

(* JSON.stringify on the values a response body is made of. *)
JSONstringify(v) ==
    CASE v.t = "string" -> "\"" \o v.v \o "\""
      [] v.t = "array" -> "[" \o JoinJSON(v.v, FALSE) \o "]"
      [] v.t = "object" -> "{" \o JoinJSON(v.e, TRUE) \o "}"
      [] OTHER -> ToStr(v)

-----------------------------------------------------------------------------
(* Inputs *)

BaseUrl == "https://demo.cachethq.io/api"
ApiToken == "9yMHsdioQosnyVK4iCVR"

(* The argument of new CachetAPI(...). *)
OptionsInputs ==
    { Undefined,
      Obj(<<>>),
      Obj(<<KV("apiToken", Str(ApiToken))>>),
      Obj(<<KV("url", Str(""))>>),
      Obj(<<KV("url", Str(BaseUrl))>>),
      Obj(<<KV("url", Str(BaseUrl)), KV("apiToken", Str(ApiToken))>>) }

(* Identifiers a caller passes: a number, a string, nothing. *)
Ids == { Num(1), Str("groups"), Undefined }

(* Payloads a caller passes to the add and update methods. *)
Payloads ==
    { Obj(<<KV("name", Str("n")), KV("status", Num(4))>>),
      Obj(<<KV("name", Str("u"))>>),
      Undefined }

(* The with_meta argument: left out, or true. *)
Flags == { Undefined, Bool(TRUE) }

Record == Obj(<<KV("id", Num(1)), KV("name", Str("n"))>>)
Meta == Obj(<<KV("pagination", Obj(<<KV("total", Num(1))>>))>>)

(* An axios response object. *)
Response(status, statusText, data) ==
    Obj(<<KV("status", status), KV("statusText", statusText), KV("data", data)>>)

(* What the transport resolves with: axios resolves on a 2xx status, with *)
(* whatever body the service sent.                                        *)
Responses ==
    { Response(Num(200), Str("OK"), Obj(<<KV("data", Str("Pong!"))>>)),
      Response(Num(200), Str("OK"), Obj(<<KV("data", Record)>>)),
      Response(Num(200), Str("OK"),
               Obj(<<KV("meta", Meta), KV("data", Arr(<<Record>>))>>)),
      Response(Num(204), Str("No Content"), Str("")),
      Response(Num(200), Str("OK"), Null),
      Obj(<<KV("status", Num(200)), KV("statusText", Str("OK"))>>) }

(* What the transport rejects with: an Error carrying the non-2xx         *)
(* response, or an Error without response when nothing came back.         *)
Rejections ==
    { Err("Error", "Request failed with status code 404",
          Response(Num(404), Str("Not Found"),
                   Obj(<<KV("errors", Arr(<<Str("Not found")>>))>>))),
      Err("Error", "Request failed with status code 500",
          Obj(<<KV("status", Num(500)), KV("statusText", Str(""))>>)),
      Err("Error", "Request failed with status code 502",
          Obj(<<KV("statusText", Str("Bad Gateway")),
                KV("data", Str("down"))>>)),
      Err("Error", "Request failed", Obj(<<>>)),
      Err("Error", "Network Error", Undefined),
      Err("Error", "", Undefined) }

-----------------------------------------------------------------------------
(* State *)

NoClient == [t |-> "none"]
(* The resources the remote service holds, in the order of their         *)
(* creation: none at first.                                               *)
NoService == <<>>
NoRequest == [method |-> "", url |-> "", data |-> Undefined,
              baseURL |-> Undefined, headers |-> Undefined]
NoOutcome == [kind |-> "none", value |-> Undefined]
NotSettled == [kind |-> "none", value |-> Undefined]

(* One invocation of a method: its frame (url, the type handed to         *)
(* createError, the return expression), the request it issued, the reply  *)
(* on its way back (when the remote service is part of the run), what the *)
(* transport settled with, and how the invocation ended.                  *)
IdleCall ==
    [pc |-> "idle", op |-> "", args |-> <<>>, url |-> "", type |-> "",
     ret |-> "", req |-> NoRequest, sent |-> 0, reply |-> NotSettled,
     settle |-> NotSettled, outcome |-> NoOutcome, events |-> <<>>]

Slots == DOMAIN calls

Init ==
    /\ construction = [pc |-> "new", options |-> Undefined, error |-> Undefined]
    /\ client = NoClient
    /\ calls = << IdleCall >>
    /\ nCalls = 0
    /\ nRequests = 0
    /\ nLogged = 0
    /\ service = NoService

-----------------------------------------------------------------------------
(* constructor(options) *)

(* The constructor testing only that options were given. *)
constructor_optionsOnly ==
    /\ construction.pc = "new"
    /\ \E options \in OptionsInputs :
         IF ~Truthy(options)
         THEN /\ construction' =
                   [pc |-> "threw", options |-> options,
                    error |-> Err("Error",
                                  "Error! options.url a is required option!",
                                  Undefined)]
              /\ client' = client
         ELSE /\ construction' =
                   [pc |-> "ok", options |-> options, error |-> Undefined]
              /\ client' =
                   [t |-> "client",
                    options |-> options,
                    api |-> [baseURL |-> Prop(options, "url"),
                             headers |->
                               Obj(<<KV("X-Cachet-Token",
                                        Prop(options, "apiToken"))>>)]]
    /\ UNCHANGED <<calls, nCalls, nRequests, nLogged, service>>

(* The constructor reading the token from options.token. *)
constructor_tokenKey ==
    /\ construction.pc = "new"
    /\ \E options \in OptionsInputs :
         IF ~Truthy(options) \/ ~Truthy(Prop(options, "url"))
         THEN /\ construction' =
                   [pc |-> "threw", options |-> options,
                    error |-> Err("Error",
                                  "Error! options.url a is required option!",
                                  Undefined)]
              /\ client' = client
         ELSE /\ construction' =
                   [pc |-> "ok", options |-> options, error |-> Undefined]
              /\ client' =
                   [t |-> "client",
                    options |-> options,
                    api |-> [baseURL |-> Prop(options, "url"),
                             headers |->
                               Obj(<<KV("X-Cachet-Token",
                                        Prop(options, "token"))>>)]]
    /\ UNCHANGED <<calls, nCalls, nRequests, nLogged, service>>

(* The constructor probing the url with a request of its own. *)
constructor_probes ==
    /\ construction.pc = "new"
    /\ \E options \in OptionsInputs :
         IF ~Truthy(options) \/ ~Truthy(Prop(options, "url"))
         THEN /\ construction' =
                   [pc |-> "threw", options |-> options,
                    error |-> Err("Error",
                                  "Error! options.url a is required option!",
                                  Undefined)]
              /\ client' = client
              /\ nRequests' = nRequests
         ELSE /\ construction' =
                   [pc |-> "ok", options |-> options, error |-> Undefined]
              /\ client' =
                   [t |-> "client",
                    options |-> options,
                    api |-> [baseURL |-> Prop(options, "url"),
                             headers |->
                               Obj(<<KV("X-Cachet-Token",
                                        Prop(options, "apiToken"))>>)]]
              /\ nRequests' = nRequests + 1
    /\ UNCHANGED <<calls, nCalls, nLogged, service>>

(* new CachetAPI(options): the check of options.url, then the axios      *)
(* instance bound to the url and the token header.                        *)
constructor ==
    /\ construction.pc = "new"
    /\ \E options \in OptionsInputs :
         IF ~Truthy(options) \/ ~Truthy(Prop(options, "url"))
         THEN /\ construction' =
                   [pc |-> "threw", options |-> options,
                    error |-> Err("Error",
                                  "Error! options.url a is required option!",
                                  Undefined)]
              /\ client' = client
         ELSE /\ construction' =
                   [pc |-> "ok", options |-> options, error |-> Undefined]
              /\ client' =
                   [t |-> "client",
                    options |-> options,
                    api |-> [baseURL |-> Prop(options, "url"),
                             headers |->
                               Obj(<<KV("X-Cachet-Token",
                                        Prop(options, "apiToken"))>>)]]
    /\ UNCHANGED <<calls, nCalls, nRequests, nLogged, service>>

-----------------------------------------------------------------------------
(* createError(url, type, error) *)

(* toString replaced by a read of error.message. *)
toString_message(v) == IF v.t = "error" THEN v.message ELSE ToStr(v)

(* x.toString() of the rejection value in createError's else branch. *)
toString(v) == ToStr(v)

(* The text built with the status text ahead of the status. *)
extraErrorText_textFirst(error) ==
    IF Truthy(error) /\ Truthy(Prop(error, "response"))
    THEN LET response == Prop(error, "response")
         IN  (IF Truthy(Prop(response, "statusText"))
              THEN ToStr(Prop(response, "statusText")) \o " | " ELSE "")
             \o (IF Truthy(Prop(response, "status"))
                 THEN ToStr(Prop(response, "status")) \o " " ELSE "")
             \o (IF Truthy(Prop(response, "data"))
                 THEN JSONstringify(Prop(response, "data")) ELSE "")
    ELSE toString(error)

(* The text createError builds from the rejection value. *)
extraErrorText(error) ==
    IF Truthy(error) /\ Truthy(Prop(error, "response"))
    THEN LET response == Prop(error, "response")
         IN  (IF Truthy(Prop(response, "status"))
              THEN ToStr(Prop(response, "status")) \o " " ELSE "")
             \o (IF Truthy(Prop(response, "statusText"))
                 THEN ToStr(Prop(response, "statusText")) \o " | " ELSE "")
             \o (IF Truthy(Prop(response, "data"))
                 THEN JSONstringify(Prop(response, "data")) ELSE "")
    ELSE toString(error)

(* createError reading the status with error.response.status.toString(). *)
createError_statusToString(url, type, error) ==
    IF ~Truthy(error) /\ ~CanRead(error)
    THEN [threw |-> TRUE, logged |-> <<>>,
          value |-> Err("TypeError",
                        "Cannot read property 'toString' of " \o ToStr(error),
                        Undefined)]
    ELSE IF /\ Truthy(Prop(error, "response"))
            /\ ~CanRead(Prop(Prop(error, "response"), "status"))
    THEN [threw |-> TRUE, logged |-> <<>>,
          value |-> Err("TypeError",
                        "Cannot read property 'toString' of "
                          \o ToStr(Prop(Prop(error, "response"), "status")),
                        Undefined)]
    ELSE [threw |-> FALSE, logged |-> <<error>>,
          value |-> Err("Error",
                        "Unable to " \o type \o " " \o url \o ": "
                          \o extraErrorText(error),
                        Undefined)]

(* createError without its console.error. *)
createError_silent(url, type, error) ==
    IF ~Truthy(error) /\ ~CanRead(error)
    THEN [threw |-> TRUE, logged |-> <<>>,
          value |-> Err("TypeError",
                        "Cannot read property 'toString' of " \o ToStr(error),
                        Undefined)]
    ELSE [threw |-> FALSE, logged |-> <<>>,
          value |-> Err("Error",
                        "Unable to " \o type \o " " \o url \o ": "
                          \o extraErrorText(error),
                        Undefined)]

(* createError logs the rejection value and returns the new Error; when   *)
(* the value is undefined or null, error.toString() throws a TypeError    *)
(* before anything is logged.                                             *)
createError(url, type, error) ==
    IF ~Truthy(error) /\ ~CanRead(error)
    THEN [threw |-> TRUE, logged |-> <<>>,
          value |-> Err("TypeError",
                        "Cannot read property 'toString' of " \o ToStr(error),
                        Undefined)]
    ELSE [threw |-> FALSE, logged |-> <<error>>,
          value |-> Err("Error",
                        "Unable to " \o type \o " " \o url \o ": "
                          \o extraErrorText(error),
                        Undefined)]

-----------------------------------------------------------------------------
(* The part every method shares *)

Event(name, value) == [e |-> name, v |-> value]

(* A method keeping its url on the instance (this.url = url). *)
Issue_storesUrl(s, op, args, verb, url, data, type, ret) ==
    /\ client.t = "client"
    /\ calls[s].pc = "idle"
    /\ nCalls < MaxCalls
    /\ calls' = [calls EXCEPT ![s] =
                   [pc |-> "awaiting", op |-> op, args |-> args, url |-> url,
                    type |-> type, ret |-> ret,
                    req |-> [method |-> verb, url |-> url, data |-> data,
                             baseURL |-> client.api.baseURL,
                             headers |-> client.api.headers],
                    sent |-> 1, reply |-> NotSettled, settle |-> NotSettled,
                    outcome |-> NoOutcome,
                    events |-> <<Event("request", Str(url))>>]]
    /\ client' = [t |-> "client", options |-> client.options,
                  api |-> client.api, url |-> Str(url)]
    /\ nCalls' = nCalls + 1
    /\ nRequests' = nRequests + 1
    /\ UNCHANGED <<construction, nLogged, service>>

(* The method's frame up to its await: url is bound, the axios call       *)
(* this.api.<verb>(url[, data]) is made on the instance created by the    *)
(* constructor, and the method suspends.  type is the string the catch    *)
(* block hands to createError, ret the expression after the try block.    *)
Issue(s, op, args, verb, url, data, type, ret) ==
    /\ client.t = "client"
    /\ calls[s].pc = "idle"
    /\ nCalls < MaxCalls
    /\ calls' = [calls EXCEPT ![s] =
                   [pc |-> "awaiting", op |-> op, args |-> args, url |-> url,
                    type |-> type, ret |-> ret,
                    req |-> [method |-> verb, url |-> url, data |-> data,
                             baseURL |-> client.api.baseURL,
                             headers |-> client.api.headers],
                    sent |-> 1, reply |-> NotSettled, settle |-> NotSettled,
                    outcome |-> NoOutcome,
                    events |-> <<Event("request", Str(url))>>]]
    /\ nCalls' = nCalls + 1
    /\ nRequests' = nRequests + 1
    /\ UNCHANGED <<construction, client, nLogged, service>>

(* The flag ignored: both levels are always unwrapped. *)
WithMeta_ignored(with_meta) == "response.data.data"

(* if (with_meta) return response.data else return response.data.data *)
WithMeta(with_meta) ==
    IF Truthy(with_meta) THEN "response.data" ELSE "response.data.data"

-----------------------------------------------------------------------------
(* The methods of the class, one action each *)

(* ping unwrapping one level only. *)
ping_unwrapsOnce(s) ==
    Issue(s, "ping", <<>>, "GET",
          "/v1/ping",
          Undefined, "GET", "response.data")

ping(s) ==
    Issue(s, "ping", <<>>, "GET",
          "/v1/ping",
          Undefined, "GET", "response.data.data")

getVersion(s) ==
    \E with_meta \in Flags :
        Issue(s, "getVersion", <<with_meta>>, "GET",
              "/v1/version",
              Undefined, "GET", WithMeta(with_meta))

getComponents(s) ==
    \E with_meta \in Flags :
        Issue(s, "getComponents", <<with_meta>>, "GET",
              "/v1/components",
              Undefined, "GET", WithMeta(with_meta))

(* getComponent with the path of getComponentGroup. *)
getComponent_ofGroup(s) ==
    \E component_id \in Ids :
        Issue(s, "getComponent", <<component_id>>, "GET",
              "/v1/components/groups/" \o ToStr(component_id),
              Undefined, "GET", "response.data.data")

getComponent(s) ==
    \E component_id \in Ids :
        Issue(s, "getComponent", <<component_id>>, "GET",
              "/v1/components/" \o ToStr(component_id),
              Undefined, "GET", "response.data.data")

addComponent(s) ==
    \E component \in Payloads :
        Issue(s, "addComponent", <<component>>, "POST",
              "/v1/components",
              component, "POST", "response.data.data")

(* updateComponent leaving the payload out of the axios call. *)
updateComponent_noBody(s) ==
    \E component_id \in Ids, component \in Payloads :
        Issue(s, "updateComponent", <<component_id, component>>, "PUT",
              "/v1/components/" \o ToStr(component_id),
              Undefined, "PUT", "response.data.data")

updateComponent(s) ==
    \E component_id \in Ids, component \in Payloads :
        Issue(s, "updateComponent", <<component_id, component>>, "PUT",
              "/v1/components/" \o ToStr(component_id),
              component, "PUT", "response.data.data")

(* deleteComponent calling this.api.get. *)
deleteComponent_viaGet(s) ==
    \E component_id \in Ids :
        Issue(s, "deleteComponent", <<component_id>>, "GET",
              "/v1/components/" \o ToStr(component_id),
              Undefined, "DELETE", "true")

(* deleteComponent unwrapping the response as the other methods do. *)
deleteComponent_unwraps(s) ==
    \E component_id \in Ids :
        Issue(s, "deleteComponent", <<component_id>>, "DELETE",
              "/v1/components/" \o ToStr(component_id),
              Undefined, "DELETE", "response.data.data")

deleteComponent(s) ==
    \E component_id \in Ids :
        Issue(s, "deleteComponent", <<component_id>>, "DELETE",
              "/v1/components/" \o ToStr(component_id),
              Undefined, "DELETE", "true")

getComponentGroups(s) ==
    \E with_meta \in Flags :
        Issue(s, "getComponentGroups", <<with_meta>>, "GET",
              "/v1/components/groups",
              Undefined, "GET", WithMeta(with_meta))

getComponentGroup(s) ==
    \E group_id \in Ids :
        Issue(s, "getComponentGroup", <<group_id>>, "GET",
              "/v1/components/groups/" \o ToStr(group_id),
              Undefined, "GET", "response.data.data")

addComponentGroup(s) ==
    \E group \in Payloads :
        Issue(s, "addComponentGroup", <<group>>, "POST",
              "/v1/components/groups",
              group, "POST", "response.data.data")

updateComponentGroup(s) ==
    \E group_id \in Ids, group \in Payloads :
        Issue(s, "updateComponentGroup", <<group_id, group>>, "PUT",
              "/v1/components/groups/" \o ToStr(group_id),
              group, "PUT", "response.data.data")

deleteComponentGroup(s) ==
    \E group_id \in Ids :
        Issue(s, "deleteComponentGroup", <<group_id>>, "DELETE",
              "/v1/components/groups/" \o ToStr(group_id),
              Undefined, "DELETE", "true")

getIncidents(s) ==
    \E with_meta \in Flags :
        Issue(s, "getIncidents", <<with_meta>>, "GET",
              "/v1/incidents",
              Undefined, "GET", WithMeta(with_meta))

getIncident(s) ==
    \E incident_id \in Ids :
        Issue(s, "getIncident", <<incident_id>>, "GET",
              "/v1/incidents/" \o ToStr(incident_id),
              Undefined, "GET", "response.data.data")

addIncident(s) ==
    \E incident \in Payloads :
        Issue(s, "addIncident", <<incident>>, "POST",
              "/v1/incidents",
              incident, "POST", "response.data.data")

updateIncident(s) ==
    \E incident_id \in Ids, incident \in Payloads :
        Issue(s, "updateIncident", <<incident_id, incident>>, "PUT",
              "/v1/incidents/" \o ToStr(incident_id),
              incident, "PUT", "response.data.data")

deleteIncident(s) ==
    \E incident_id \in Ids :
        Issue(s, "deleteIncident", <<incident_id>>, "DELETE",
              "/v1/incidents/" \o ToStr(incident_id),
              Undefined, "DELETE", "true")

getIncidentUpdates(s) ==
    \E incident_id \in Ids, with_meta \in Flags :
        Issue(s, "getIncidentUpdates", <<incident_id, with_meta>>, "GET",
              "/v1/incidents/" \o ToStr(incident_id) \o "/updates",
              Undefined, "GET", WithMeta(with_meta))

(* getIncidentUpdate leaving the parent id out of the path. *)
getIncidentUpdate_noParent(s) ==
    \E incident_id \in Ids, update_id \in Ids :
        Issue(s, "getIncidentUpdate", <<incident_id, update_id>>, "GET",
              "/v1/incidents/updates/" \o ToStr(update_id),
              Undefined, "GET", "response.data.data")

getIncidentUpdate(s) ==
    \E incident_id \in Ids, update_id \in Ids :
        Issue(s, "getIncidentUpdate", <<incident_id, update_id>>, "GET",
              "/v1/incidents/" \o ToStr(incident_id) \o "/updates/" \o ToStr(update_id),
              Undefined, "GET", "response.data.data")

addIncidentUpdate(s) ==
    \E incident_id \in Ids, update \in Payloads :
        Issue(s, "addIncidentUpdate", <<incident_id, update>>, "POST",
              "/v1/incidents/" \o ToStr(incident_id) \o "/updates",
              update, "POST", "response.data.data")

(* updateIncidentUpdate with the catch block naming POST, not PUT. *)
updateIncidentUpdate_namesPOST(s) ==
    \E incident_id \in Ids, update_id \in Ids, update \in Payloads :
        Issue(s, "updateIncidentUpdate", <<incident_id, update_id, update>>, "PUT",
              "/v1/incidents/" \o ToStr(incident_id) \o "/updates/" \o ToStr(update_id),
              update, "POST", "response.data.data")

updateIncidentUpdate(s) ==
    \E incident_id \in Ids, update_id \in Ids, update \in Payloads :
        Issue(s, "updateIncidentUpdate", <<incident_id, update_id, update>>, "PUT",
              "/v1/incidents/" \o ToStr(incident_id) \o "/updates/" \o ToStr(update_id),
              update, "PUT", "response.data.data")

(* deleteIncidentUpdate reading an absent update id as no id at all. *)
deleteIncidentUpdate_skipsAbsent(s) ==
    \E incident_id \in Ids, update_id \in Ids :
        Issue(s, "deleteIncidentUpdate", <<incident_id, update_id>>, "DELETE",
              "/v1/incidents/" \o ToStr(incident_id) \o "/updates/"
                \o (IF update_id = Undefined THEN "" ELSE ToStr(update_id)),
              Undefined, "DELETE", "true")

deleteIncidentUpdate(s) ==
    \E incident_id \in Ids, update_id \in Ids :
        Issue(s, "deleteIncidentUpdate", <<incident_id, update_id>>, "DELETE",
              "/v1/incidents/" \o ToStr(incident_id) \o "/updates/" \o ToStr(update_id),
              Undefined, "DELETE", "true")

getMetrics(s) ==
    \E with_meta \in Flags :
        Issue(s, "getMetrics", <<with_meta>>, "GET",
              "/v1/metrics",
              Undefined, "GET", WithMeta(with_meta))

getMetric(s) ==
    \E metric_id \in Ids :
        Issue(s, "getMetric", <<metric_id>>, "GET",
              "/v1/metrics/" \o ToStr(metric_id),
              Undefined, "GET", "response.data.data")

addMetric(s) ==
    \E metric \in Payloads :
        Issue(s, "addMetric", <<metric>>, "POST",
              "/v1/metrics",
              metric, "POST", "response.data.data")

deleteMetric(s) ==
    \E metric_id \in Ids :
        Issue(s, "deleteMetric", <<metric_id>>, "DELETE",
              "/v1/metrics/" \o ToStr(metric_id),
              Undefined, "DELETE", "true")

getMetricPoints(s) ==
    \E metric_id \in Ids, extra \in Flags :
        Issue(s, "getMetricPoints", <<metric_id, extra>>, "GET",
              "/v1/metrics/" \o ToStr(metric_id) \o "/points",
              Undefined, "GET", "response.data.data")

addMetricPoint(s) ==
    \E metric_id \in Ids, point \in Payloads :
        Issue(s, "addMetricPoint", <<metric_id, point>>, "POST",
              "/v1/metrics/" \o ToStr(metric_id) \o "/points",
              point, "POST", "response.data.data")

(* deleteMetricPoint addressing the metric instead of the point. *)
deleteMetricPoint_ofMetric(s) ==
    \E metric_id \in Ids, point_id \in Ids :
        Issue(s, "deleteMetricPoint", <<metric_id, point_id>>, "DELETE",
              "/v1/metrics/" \o ToStr(point_id),
              Undefined, "DELETE", "true")

deleteMetricPoint(s) ==
    \E metric_id \in Ids, point_id \in Ids :
        Issue(s, "deleteMetricPoint", <<metric_id, point_id>>, "DELETE",
              "/v1/metrics/" \o ToStr(metric_id) \o "/points/" \o ToStr(point_id),
              Undefined, "DELETE", "true")

getSubscribers(s) ==
    \E extra \in Flags :
        Issue(s, "getSubscribers", <<extra>>, "GET",
              "/v1/subscribers",
              Undefined, "GET", "response.data.data")

addSubscriber(s) ==
    \E subscriber \in Payloads :
        Issue(s, "addSubscriber", <<subscriber>>, "POST",
              "/v1/subscribers",
              subscriber, "POST", "response.data.data")

deleteSubscriber(s) ==
    \E subscriber_id \in Ids :
        Issue(s, "deleteSubscriber", <<subscriber_id>>, "DELETE",
              "/v1/subscribers/" \o ToStr(subscriber_id),
              Undefined, "DELETE", "true")


(* The class has no member getMetricPoint: calling it is a call of        *)
(* undefined, a TypeError raised before any request is made.              *)
getMetricPoint(s) ==
    /\ client.t = "client"
    /\ calls[s].pc = "idle"
    /\ nCalls < MaxCalls
    /\ \E metric_id \in Ids, point_id \in Ids :
         calls' = [calls EXCEPT ![s] =
                     [IdleCall EXCEPT
                        !.pc = "done",
                        !.op = "getMetricPoint",
                        !.args = <<metric_id, point_id>>,
                        !.outcome =
                           [kind |-> "throw",
                            value |-> Err("TypeError",
                                          "getMetricPoint is not a function",
                                          Undefined)]]]
    /\ nCalls' = nCalls + 1
    /\ UNCHANGED <<construction, client, nRequests, nLogged, service>>

(* Nor has it a member getSubscriber. *)
getSubscriber(s) ==
    /\ client.t = "client"
    /\ calls[s].pc = "idle"
    /\ nCalls < MaxCalls
    /\ \E subscriber_id \in Ids :
         calls' = [calls EXCEPT ![s] =
                     [IdleCall EXCEPT
                        !.pc = "done",
                        !.op = "getSubscriber",
                        !.args = <<subscriber_id>>,
                        !.outcome =
                           [kind |-> "throw",
                            value |-> Err("TypeError",
                                          "getSubscriber is not a function",
                                          Undefined)]]]
    /\ nCalls' = nCalls + 1
    /\ UNCHANGED <<construction, client, nRequests, nLogged, service>>

(* Nor has it a member updateSubscriber: subscribers are listed, added *)
(* and deleted only.                                                   *)
updateSubscriber(s) ==
    /\ client.t = "client"
    /\ calls[s].pc = "idle"
    /\ nCalls < MaxCalls
    /\ \E subscriber_id \in Ids, subscriber \in Payloads :
         calls' = [calls EXCEPT ![s] =
                     [IdleCall EXCEPT
                        !.pc = "done",
                        !.op = "updateSubscriber",
                        !.args = <<subscriber_id, subscriber>>,
                        !.outcome =
                           [kind |-> "throw",
                            value |-> Err("TypeError",
                                          "updateSubscriber is not a function",
                                          Undefined)]]]
    /\ nCalls' = nCalls + 1
    /\ UNCHANGED <<construction, client, nRequests, nLogged, service>>

-----------------------------------------------------------------------------
(* The rest of a method, run when the awaited axios promise settles *)

(* The value of the return statement after the try block. *)
ReturnOf(ret, response) ==
    LET body == Prop(response, "data")
    IN  CASE ret = "true" -> [kind |-> "return", value |-> Bool(TRUE)]
          [] ret = "response.data" -> [kind |-> "return", value |-> body]
          [] ret = "response.data.data" ->
               IF CanRead(body)
               THEN [kind |-> "return", value |-> Prop(body, "data")]
               ELSE [kind |-> "throw",
                     value |-> Err("TypeError",
                                   "Cannot read property 'data' of "
                                     \o ToStr(body),
                                   Undefined)]

(* What the awaited promise can settle with, one way or the other: the    *)
(* reply on its way back when there is one, anything of the kind when the *)
(* remote service is left open.                                           *)
Arriving(c, kind, any) ==
    IF c.reply.kind = "none" THEN any
    ELSE IF c.reply.kind = kind THEN {c.reply.value} ELSE {}

(* A try block that reports the response through createError's log before *)
(* it returns.                                                            *)
Resolve_logs(s) ==
    /\ calls[s].pc = "awaiting"
    /\ \E response \in Arriving(calls[s], "resolve", Responses) :
         LET out == ReturnOf(calls[s].ret, response)
         IN  calls' = [calls EXCEPT ![s] =
                         [@ EXCEPT
                            !.pc = "done",
                            !.settle = [kind |-> "resolve", value |-> response],
                            !.outcome = out,
                            !.events = @ \o <<Event("resolve", response),
                                              Event("log", response),
                                              Event(out.kind, out.value)>>]]
    /\ nLogged' = nLogged + 1
    /\ UNCHANGED <<construction, client, nCalls, nRequests, service>>

(* The promise fulfils: response is assigned, the try block ends, the     *)
(* return statement is evaluated.                                         *)
Resolve(s) ==
    /\ calls[s].pc = "awaiting"
    /\ \E response \in Arriving(calls[s], "resolve", Responses) :
         LET out == ReturnOf(calls[s].ret, response)
         IN  calls' = [calls EXCEPT ![s] =
                         [@ EXCEPT
                            !.pc = "done",
                            !.settle = [kind |-> "resolve", value |-> response],
                            !.outcome = out,
                            !.events = @ \o <<Event("resolve", response),
                                              Event(out.kind, out.value)>>]]
    /\ UNCHANGED <<construction, client, nCalls, nRequests, nLogged, service>>

(* A catch block that issues the request once more before giving up. *)
Reject_retries(s) ==
    /\ calls[s].pc = "awaiting"
    /\ \E e \in Arriving(calls[s], "reject", Rejections) :
         LET made == createError(calls[s].url, calls[s].type, e)
         IN  /\ calls' = [calls EXCEPT ![s] =
                            [@ EXCEPT
                               !.pc = "done",
                               !.sent = @ + 1,
                               !.settle = [kind |-> "reject", value |-> e],
                               !.outcome = [kind |-> "throw",
                                            value |-> made.value],
                               !.events =
                                  @ \o <<Event("reject", e),
                                         Event("request", Str(calls[s].url)),
                                         Event("reject", e)>>
                                    \o [i \in 1..Len(made.logged) |->
                                          Event("log", made.logged[i])]
                                    \o <<Event("throw", made.value)>>]]
             /\ nLogged' = nLogged + Len(made.logged)
    /\ UNCHANGED <<construction, client, nCalls, nRequests, service>>

(* A catch block naming the url of whichever call was made last on the   *)
(* instance (the url kept in a field shared by the calls in flight).      *)
Reject_sharedUrl(s) ==
    /\ calls[s].pc = "awaiting"
    /\ \E e \in Arriving(calls[s], "reject", Rejections) :
         LET others == {t \in Slots \ {s} : calls[t].pc = "awaiting"}
             url == IF others = {} THEN calls[s].url
                    ELSE calls[CHOOSE t \in others : TRUE].url
             made == createError(url, calls[s].type, e)
         IN  /\ calls' = [calls EXCEPT ![s] =
                            [@ EXCEPT
                               !.pc = "done",
                               !.settle = [kind |-> "reject", value |-> e],
                               !.outcome = [kind |-> "throw",
                                            value |-> made.value],
                               !.events =
                                  @ \o <<Event("reject", e)>>
                                    \o [i \in 1..Len(made.logged) |->
                                          Event("log", made.logged[i])]
                                    \o <<Event("throw", made.value)>>]]
             /\ nLogged' = nLogged + Len(made.logged)
    /\ UNCHANGED <<construction, client, nCalls, nRequests, service>>

(* The promise rejects: the catch block throws what createError returns   *)
(* (or what createError itself throws).                                   *)
Reject(s) ==
    /\ calls[s].pc = "awaiting"
    /\ \E e \in Arriving(calls[s], "reject", Rejections) :
         LET made == createError(calls[s].url, calls[s].type, e)
         IN  /\ calls' = [calls EXCEPT ![s] =
                            [@ EXCEPT
                               !.pc = "done",
                               !.settle = [kind |-> "reject", value |-> e],
                               !.outcome = [kind |-> "throw",
                                            value |-> made.value],
                               !.events =
                                  @ \o <<Event("reject", e)>>
                                    \o [i \in 1..Len(made.logged) |->
                                          Event("log", made.logged[i])]
                                    \o <<Event("throw", made.value)>>]]
             /\ nLogged' = nLogged + Len(made.logged)
    /\ UNCHANGED <<construction, client, nCalls, nRequests, service>>

(* The caller has the outcome; the frame is gone. *)
Finish(s) ==
    /\ calls[s].pc = "done"
    /\ calls' = [calls EXCEPT ![s] = IdleCall]
    /\ UNCHANGED <<construction, client, nCalls, nRequests, nLogged, service>>

-----------------------------------------------------------------------------
Next ==
    \/ constructor
    \/ \E s \in Slots : ping(s)
    \/ \E s \in Slots : getVersion(s)
    \/ \E s \in Slots : getComponents(s)
    \/ \E s \in Slots : getComponent(s)
    \/ \E s \in Slots : addComponent(s)
    \/ \E s \in Slots : updateComponent(s)
    \/ \E s \in Slots : deleteComponent(s)
    \/ \E s \in Slots : getComponentGroups(s)
    \/ \E s \in Slots : getComponentGroup(s)
    \/ \E s \in Slots : addComponentGroup(s)
    \/ \E s \in Slots : updateComponentGroup(s)
    \/ \E s \in Slots : deleteComponentGroup(s)
    \/ \E s \in Slots : getIncidents(s)
    \/ \E s \in Slots : getIncident(s)
    \/ \E s \in Slots : addIncident(s)
    \/ \E s \in Slots : updateIncident(s)
    \/ \E s \in Slots : deleteIncident(s)
    \/ \E s \in Slots : getIncidentUpdates(s)
    \/ \E s \in Slots : getIncidentUpdate(s)
    \/ \E s \in Slots : addIncidentUpdate(s)
    \/ \E s \in Slots : updateIncidentUpdate(s)
    \/ \E s \in Slots : deleteIncidentUpdate(s)
    \/ \E s \in Slots : getMetrics(s)
    \/ \E s \in Slots : getMetric(s)
    \/ \E s \in Slots : addMetric(s)
    \/ \E s \in Slots : deleteMetric(s)
    \/ \E s \in Slots : getMetricPoints(s)
    \/ \E s \in Slots : addMetricPoint(s)
    \/ \E s \in Slots : deleteMetricPoint(s)
    \/ \E s \in Slots : getSubscribers(s)
    \/ \E s \in Slots : addSubscriber(s)
    \/ \E s \in Slots : deleteSubscriber(s)
    \/ \E s \in Slots : getMetricPoint(s)
    \/ \E s \in Slots : getSubscriber(s)
    \/ \E s \in Slots : updateSubscriber(s)
    \/ \E s \in Slots : Resolve(s)
    \/ \E s \in Slots : Reject(s)
    \/ \E s \in Slots : Finish(s)

-----------------------------------------------------------------------------
(* The remote service: a store of records under the collections of the    *)
(* endpoint table.  A record is created by POST <collection>, read by GET *)
(* <collection>/<id>, changed by PUT, removed by DELETE; a request for    *)
(* what is not there is answered 404.                                     *)

TopCollections ==
    {"/v1/components", "/v1/components/groups", "/v1/incidents",
     "/v1/metrics", "/v1/subscribers"}

(* One resource: its path, its collection, the record as it is now, as it *)
(* was created and as it was before the last update, the payload of the   *)
(* last update, and whether it still exists.                              *)
Resource(path, coll, rec) ==
    [path |-> path, coll |-> coll, rec |-> rec, created |-> rec,
     prev |-> rec, updated |-> Undefined, alive |-> TRUE]

(* The collections requests can address: the top ones, and under each     *)
(* living incident its updates, under each living metric its points.      *)
CollectionOpen(svc, coll) ==
    \/ coll \in TopCollections
    \/ \E i \in 1..Len(svc) :
          /\ svc[i].alive
          /\ \/ svc[i].coll = "/v1/incidents" /\ coll = svc[i].path \o "/updates"
             \/ svc[i].coll = "/v1/metrics" /\ coll = svc[i].path \o "/points"

(* The living resource at a path, as a set of at most one index. *)
Holding(svc, path) ==
    {i \in 1..Len(svc) :
        /\ svc[i].path = path
        /\ svc[i].alive
        /\ CollectionOpen(svc, svc[i].coll)}

Keys(obj) == {obj.e[i].k : i \in 1..Len(obj.e)}

(* A partial update: the fields the payload names are replaced or added,  *)
(* the others stay.                                                       *)
Merge(rec, payload) ==
    IF payload.t # "object" THEN rec
    ELSE Obj([i \in 1..Len(rec.e) |->
                 IF rec.e[i].k \in Keys(payload)
                 THEN KV(rec.e[i].k, Prop(payload, rec.e[i].k))
                 ELSE rec.e[i]]
             \o SelectSeq(payload.e, LAMBDA kv : kv.k \notin Keys(rec)))

NotFound ==
    Err("Error", "Request failed with status code 404",
        Response(Num(404), Str("Not Found"),
                 Obj(<<KV("errors", Arr(<<Str("Not found")>>))>>)))

BadRequest ==
    Err("Error", "Request failed with status code 400",
        Response(Num(400), Str("Bad Request"),
                 Obj(<<KV("errors", Arr(<<Str("Bad request")>>))>>)))

(* The service's answer to a request: the store afterwards and what the   *)
(* transport will settle with (resolve on 2xx, reject otherwise).         *)
Answer(svc, req) ==
    LET at == Holding(svc, req.url)
        i == CHOOSE j \in at : TRUE
        ok(data) == [kind |-> "resolve",
                     value |-> Response(Num(200), Str("OK"), data)]
        no(e) == [kind |-> "reject", value |-> e]
    IN  CASE req.method = "POST" /\ CollectionOpen(svc, req.url) ->
               IF req.data.t # "object"
               THEN [service |-> svc, reply |-> no(BadRequest)]
               ELSE LET n == 1 + Cardinality({j \in 1..Len(svc) :
                                                 svc[j].coll = req.url})
                        rec == Obj(<<KV("id", Num(n))>> \o req.data.e)
                    IN  [service |->
                           Append(svc, Resource(req.url \o "/" \o ToString(n),
                                                req.url, rec)),
                         reply |-> ok(Obj(<<KV("data", rec)>>))]
          [] req.method = "GET" /\ CollectionOpen(svc, req.url) ->
               LET members == SelectSeq(svc, LAMBDA r :
                                  r.coll = req.url /\ r.alive)
               IN  [service |-> svc,
                    reply |-> ok(Obj(<<KV("meta", Meta),
                                       KV("data",
                                          Arr([j \in 1..Len(members) |->
                                                 members[j].rec]))>>))]
          [] req.method = "GET" /\ ~CollectionOpen(svc, req.url) /\ at # {} ->
               [service |-> svc,
                reply |-> ok(Obj(<<KV("data", svc[i].rec)>>))]
          [] req.method = "PUT" /\ at # {} ->
               LET rec == Merge(svc[i].rec, req.data)
               IN  [service |->
                      IF req.data.t # "object" THEN svc
                      ELSE [svc EXCEPT ![i].rec = rec,
                                       ![i].prev = svc[i].rec,
                                       ![i].updated = req.data],
                    reply |-> ok(Obj(<<KV("data", rec)>>))]
          [] req.method = "DELETE" /\ at # {} ->
               [service |-> [svc EXCEPT ![i].alive = FALSE],
                reply |-> [kind |-> "resolve",
                           value |-> Response(Num(204), Str("No Content"),
                                              Str(""))]]
          [] OTHER -> [service |-> svc, reply |-> no(NotFound)]

(* The request of a call in flight reaches the service and is answered. *)
Serve(s) ==
    /\ calls[s].pc = "awaiting"
    /\ calls[s].reply.kind = "none"
    /\ LET answer == Answer(service, calls[s].req)
       IN  /\ service' = answer.service
           /\ calls' = [calls EXCEPT ![s].reply = answer.reply]
    /\ UNCHANGED <<construction, client, nCalls, nRequests, nLogged>>

(* The request is lost on the way: the transport will reject without a    *)
(* response.                                                              *)
Drop(s) ==
    /\ calls[s].pc = "awaiting"
    /\ calls[s].reply.kind = "none"
    /\ calls' = [calls EXCEPT ![s].reply =
                   [kind |-> "reject",
                    value |-> Err("Error", "Network Error", Undefined)]]
    /\ UNCHANGED <<construction, client, nCalls, nRequests, nLogged, service>>

(* One caller, the client and the service, over three of the families: a  *)
(* plain one, a nested one and one without a get.                        *)
NextService ==
    \/ constructor
    \/ \E s \in Slots : getComponent(s)
    \/ \E s \in Slots : addComponent(s)
    \/ \E s \in Slots : updateComponent(s)
    \/ \E s \in Slots : deleteComponent(s)
    \/ \E s \in Slots : addIncident(s)
    \/ \E s \in Slots : getIncidentUpdate(s)
    \/ \E s \in Slots : addIncidentUpdate(s)
    \/ \E s \in Slots : deleteIncidentUpdate(s)
    \/ \E s \in Slots : addSubscriber(s)
    \/ \E s \in Slots : deleteSubscriber(s)
    \/ \E s \in Slots : getSubscriber(s)
    \/ \E s \in Slots : updateSubscriber(s)
    \/ \E s \in Slots : Serve(s)
    \/ \E s \in Slots : Drop(s)
    \/ \E s \in Slots : calls[s].reply.kind # "none" /\ Resolve(s)
    \/ \E s \in Slots : calls[s].reply.kind # "none" /\ Reject(s)
    \/ \E s \in Slots : Finish(s)

SpecService == Init /\ [][NextService]_vars

(* Two callers on one client: each may have an operation in flight while  *)
(* the other's is issued or settles.                                      *)
InitConc ==
    /\ construction = [pc |-> "new", options |-> Undefined, error |-> Undefined]
    /\ client = NoClient
    /\ calls = << IdleCall, IdleCall >>
    /\ nCalls = 0
    /\ nRequests = 0
    /\ nLogged = 0
    /\ service = NoService

NextConc ==
    \/ constructor
    \/ \E s \in Slots : getVersion(s)
    \/ \E s \in Slots : getComponent(s)
    \/ \E s \in Slots : addComponent(s)
    \/ \E s \in Slots : deleteComponent(s)
    \/ \E s \in Slots : Resolve(s)
    \/ \E s \in Slots : Reject(s)
    \/ \E s \in Slots : Finish(s)

SpecConc == InitConc /\ [][NextConc]_vars

Spec == Init /\ [][Next]_vars

-----------------------------------------------------------------------------
(* Vocabulary of the properties *)

StartsWith(str, prefix) ==
    /\ Len(str) >= Len(prefix)
    /\ SubSeq(str, 1, Len(prefix)) = prefix

(* The normalized request error: an Error whose message is               *)
(* "Unable to <METHOD> <path>: <diagnostic>".                             *)
IsRequestError(v, method, path) ==
    /\ v.t = "error"
    /\ v.name = "Error"
    /\ StartsWith(v.message, "Unable to " \o method \o " " \o path \o ": ")

CountEvents(events, name) ==
    Cardinality({i \in 1..Len(events) : events[i].e = name})

(* The i-th argument the caller passed; a missing one is undefined. *)
Arg(c, i) == IF i <= Len(c.args) THEN c.args[i] ELSE Undefined

Started(c) == c.pc \in {"awaiting", "done"}
Resolved(c) == c.pc = "done" /\ c.settle.kind = "resolve"
Rejected(c) == c.pc = "done" /\ c.settle.kind = "reject"
Returned(c, value) == c.outcome = [kind |-> "return", value |-> value]

(* The envelope of the service: the body of the transport's response. *)
Envelope(c) == Prop(c.settle.value, "data")

ListOps ==
    {"getComponents", "getComponentGroups", "getIncidents",
     "getIncidentUpdates", "getMetrics", "getMetricPoints", "getSubscribers"}
GetOps ==
    {"getComponent", "getComponentGroup", "getIncident", "getIncidentUpdate",
     "getMetric"}
CreateOps ==
    {"addComponent", "addComponentGroup", "addIncident", "addIncidentUpdate",
     "addMetric", "addMetricPoint", "addSubscriber"}
UpdateOps ==
    {"updateComponent", "updateComponentGroup", "updateIncident",
     "updateIncidentUpdate"}
DeleteOps ==
    {"deleteComponent", "deleteComponentGroup", "deleteIncident",
     "deleteIncidentUpdate", "deleteMetric", "deleteMetricPoint",
     "deleteSubscriber"}
GeneralOps == {"ping", "getVersion"}

(* Every operation of the client. *)
Operations ==
    GeneralOps \cup ListOps \cup GetOps \cup CreateOps \cup UpdateOps
      \cup DeleteOps

(* The operations under a parent: their first argument is the parent id. *)
NestedOps ==
    {"getIncidentUpdates", "getIncidentUpdate", "addIncidentUpdate",
     "updateIncidentUpdate", "deleteIncidentUpdate", "getMetricPoints",
     "getMetricPoint", "addMetricPoint", "deleteMetricPoint"}

(* The collection of the endpoint table an operation works on. *)
Collection(op, args) ==
    CASE op \in {"getComponents", "getComponent", "addComponent",
                 "updateComponent", "deleteComponent"} -> "/v1/components"
      [] op \in {"getComponentGroups", "getComponentGroup",
                 "addComponentGroup", "updateComponentGroup",
                 "deleteComponentGroup"} -> "/v1/components/groups"
      [] op \in {"getIncidents", "getIncident", "addIncident",
                 "updateIncident", "deleteIncident"} -> "/v1/incidents"
      [] op \in {"getIncidentUpdates", "getIncidentUpdate",
                 "addIncidentUpdate", "updateIncidentUpdate",
                 "deleteIncidentUpdate"} ->
           "/v1/incidents/" \o ToStr(args[1]) \o "/updates"
      [] op \in {"getMetrics", "getMetric", "addMetric", "deleteMetric"} ->
           "/v1/metrics"
      [] op \in {"getMetricPoints", "getMetricPoint", "addMetricPoint",
                 "deleteMetricPoint"} ->
           "/v1/metrics/" \o ToStr(args[1]) \o "/points"
      [] op \in {"getSubscribers", "getSubscriber", "addSubscriber",
                 "updateSubscriber", "deleteSubscriber"} ->
           "/v1/subscribers"

(* The row of the endpoint table: method, path and body of the request. *)
Endpoint(op, args) ==
    LET first == IF op \in NestedOps THEN 2 ELSE 1
    IN  CASE op = "ping" ->
               [method |-> "GET", path |-> "/v1/ping", body |-> Undefined]
          [] op = "getVersion" ->
               [method |-> "GET", path |-> "/v1/version", body |-> Undefined]
          [] op \in ListOps ->
               [method |-> "GET", path |-> Collection(op, args),
                body |-> Undefined]
          [] op \in GetOps \cup {"getMetricPoint", "getSubscriber"} ->
               [method |-> "GET",
                path |-> Collection(op, args) \o "/" \o ToStr(args[first]),
                body |-> Undefined]
          [] op \in CreateOps ->
               [method |-> "POST", path |-> Collection(op, args),
                body |-> args[first]]
          [] op \in UpdateOps \cup {"updateSubscriber"} ->
               [method |-> "PUT",
                path |-> Collection(op, args) \o "/" \o ToStr(args[first]),
                body |-> args[first + 1]]
          [] op \in DeleteOps ->
               [method |-> "DELETE",
                path |-> Collection(op, args) \o "/" \o ToStr(args[first]),
                body |-> Undefined]

-----------------------------------------------------------------------------
(* C1: when the transport call rejects, the operation raises one error    *)
(* whose message is "Unable to <METHOD> <path>: <diagnostic>" with the    *)
(* method and the path of the request that was actually issued, and it    *)
(* returns no value.                                                      *)
C1_RejectionIsNormalized ==
    \A s \in Slots :
        Rejected(calls[s]) =>
            /\ calls[s].outcome.kind = "throw"
            /\ CountEvents(calls[s].events, "throw") = 1
            /\ CountEvents(calls[s].events, "return") = 0
            /\ IsRequestError(calls[s].outcome.value,
                              calls[s].req.method, calls[s].req.url)

C1_Witness ==
    \E s \in Slots :
        /\ Rejected(calls[s])
        /\ calls[s].op = "updateIncidentUpdate"
        /\ calls[s].outcome.value.message
             = "Unable to PUT /v1/incidents/1/updates/groups: "
                 \o "404 Not Found | {\"errors\":[\"Not found\"]}"

(* C2: when the transport call succeeds but the response has no usable    *)
(* body, an operation that unwraps the body raises the normalized request *)
(* error (method, path, diagnostic).                                      *)
C2_MalformedIsRequestError ==
    \A s \in Slots :
        ( /\ Resolved(calls[s])
          /\ calls[s].op \in Operations \ DeleteOps
          /\ ~CanRead(Envelope(calls[s])) ) =>
            /\ calls[s].outcome.kind = "throw"
            /\ IsRequestError(calls[s].outcome.value,
                              calls[s].req.method, calls[s].req.url)

(* C3: construction fails, and yields no client, exactly when there are   *)
(* no options or the url is missing or empty; the apiToken plays no part. *)
C3_ConstructionNeedsUrl ==
    construction.pc # "new" =>
        LET options == construction.options
            noUrl == \/ options = Undefined
                     \/ Prop(options, "url") = Undefined
                     \/ Prop(options, "url") = Str("")
        IN  IF noUrl
            THEN /\ construction.pc = "threw"
                 /\ construction.error.t = "error"
                 /\ client = NoClient
            ELSE /\ construction.pc = "ok"
                 /\ client # NoClient

C3_Witness ==
    /\ construction.pc = "threw"
    /\ construction.options = Obj(<<KV("url", Str(""))>>)

(* C4: an invocation of an operation issues exactly one request, whether  *)
(* it succeeds or fails; a failed invocation ends in exactly one          *)
(* normalized error.                                                      *)
C4_OneRequestPerInvocation ==
    /\ nRequests <= nCalls
    /\ \A s \in Slots :
          (Started(calls[s]) /\ calls[s].op \in Operations) =>
              /\ calls[s].sent = 1
              /\ CountEvents(calls[s].events, "request") = 1
              /\ Rejected(calls[s]) =>
                    /\ CountEvents(calls[s].events, "throw") = 1
                    /\ calls[s].outcome.kind = "throw"
                    /\ calls[s].outcome.value.name = "Error"

C4_Witness ==
    /\ nCalls = 2
    /\ nRequests = 2
    /\ \E s \in Slots : Rejected(calls[s]) /\ calls[s].op = "deleteComponent"

(* C5: a delete operation returns true exactly when the transport call    *)
(* did not reject, whatever the status and the body of the response.      *)
C5_DeleteTrueIffNotRejected ==
    \A s \in Slots :
        (calls[s].pc = "done" /\ calls[s].op \in DeleteOps) =>
            /\ Returned(calls[s], Bool(TRUE)) <=> calls[s].settle.kind = "resolve"
            /\ calls[s].outcome.kind = "throw" <=> calls[s].settle.kind = "reject"

C5_Witness ==
    \E s \in Slots :
        /\ Resolved(calls[s])
        /\ calls[s].op = "deleteComponent"
        /\ Envelope(calls[s]) = Null
        /\ Returned(calls[s], Bool(TRUE))

(* C6: getVersion, getComponents, getComponentGroups, getIncidents,       *)
(* getIncidentUpdates and getMetrics return the service envelope when the *)
(* with_meta flag is set and the envelope's data value when it is not.    *)
C6_WithMetaStopsOneLevelEarly ==
    \A s \in Slots :
        ( /\ Resolved(calls[s])
          /\ calls[s].op \in {"getVersion", "getComponents",
                              "getComponentGroups", "getIncidents",
                              "getIncidentUpdates", "getMetrics"} ) =>
            LET flag == IF calls[s].op = "getIncidentUpdates"
                        THEN Arg(calls[s], 2) ELSE Arg(calls[s], 1)
            IN  IF Truthy(flag)
                THEN /\ Returned(calls[s], Envelope(calls[s]))
                     /\ Prop(calls[s].outcome.value, "meta")
                          = Prop(Envelope(calls[s]), "meta")
                ELSE CanRead(Envelope(calls[s])) =>
                        Returned(calls[s], Prop(Envelope(calls[s]), "data"))

C6_Witness ==
    \E s \in Slots :
        /\ Resolved(calls[s])
        /\ calls[s].op = "getIncidentUpdates"
        /\ Arg(calls[s], 2) = Bool(TRUE)
        /\ Prop(calls[s].outcome.value, "meta") = Meta

(* C7: getMetricPoints and getSubscribers take the with_meta flag too:    *)
(* with the flag set the result exposes the envelope's pagination         *)
(* metadata, without it the result is the unwrapped sequence.             *)
C7_PointsAndSubscribersWithMeta ==
    \A s \in Slots :
        ( /\ Resolved(calls[s])
          /\ calls[s].op \in {"getMetricPoints", "getSubscribers"}
          /\ CanRead(Envelope(calls[s])) ) =>
            LET flag == IF calls[s].op = "getMetricPoints"
                        THEN Arg(calls[s], 2) ELSE Arg(calls[s], 1)
            IN  IF Truthy(flag)
                THEN /\ calls[s].outcome.kind = "return"
                     /\ Prop(calls[s].outcome.value, "meta")
                          = Prop(Envelope(calls[s]), "meta")
                ELSE Returned(calls[s], Prop(Envelope(calls[s]), "data"))

(* C8: ping and every get, create and update of one record return the     *)
(* value two levels down in the response (body, then data), unchanged;    *)
(* ping returns "Pong!" when that is the envelope's data.                 *)
C8_SingleRecordUnwrapsTwice ==
    \A s \in Slots :
        ( /\ Resolved(calls[s])
          /\ calls[s].op \in {"ping"} \cup GetOps \cup CreateOps \cup UpdateOps
          /\ CanRead(Envelope(calls[s])) ) =>
            /\ Returned(calls[s], Prop(Envelope(calls[s]), "data"))
            /\ (calls[s].op = "ping"
                  /\ Envelope(calls[s]) = Obj(<<KV("data", Str("Pong!"))>>))
                 => calls[s].outcome.value = Str("Pong!")

C8_Witness ==
    \E s \in Slots :
        /\ Resolved(calls[s])
        /\ calls[s].op = "ping"
        /\ Returned(calls[s], Str("Pong!"))

(* C9: every operation the client provides issues the method, the path    *)
(* and the body of its row of the endpoint table; a nested operation's    *)
(* path contains the parent id.                                           *)
C9_EndpointTable ==
    \A s \in Slots :
        (Started(calls[s]) /\ calls[s].sent > 0) =>
            /\ calls[s].op \in Operations
            /\ calls[s].req.method = Endpoint(calls[s].op, calls[s].args).method
            /\ calls[s].req.url = Endpoint(calls[s].op, calls[s].args).path
            /\ calls[s].req.data = Endpoint(calls[s].op, calls[s].args).body

C9_Witness ==
    \E s \in Slots :
        /\ Started(calls[s])
        /\ calls[s].op = "deleteMetricPoint"
        /\ calls[s].args = <<Num(1), Str("groups")>>
        /\ calls[s].req.method = "DELETE"
        /\ calls[s].req.url = "/v1/metrics/1/points/groups"

(* C10 as stated: list, get, create and delete of metric points are all   *)
(* provided, each issuing its request against                             *)
(* /v1/metrics/<metric_id>/points[/<id>].                                 *)
C10_FourMetricPointOperations ==
    \A s \in Slots :
        ( /\ calls[s].pc = "done"
          /\ calls[s].op \in {"getMetricPoints", "getMetricPoint",
                              "addMetricPoint", "deleteMetricPoint"} ) =>
            /\ calls[s].sent = 1
            /\ calls[s].req.method = Endpoint(calls[s].op, calls[s].args).method
            /\ calls[s].req.url = Endpoint(calls[s].op, calls[s].args).path

(* C10 amended: list, create and delete of metric points are provided,    *)
(* each issuing its request against /v1/metrics/<metric_id>/points[/<id>];*)
(* there is no get of one point: calling it raises a TypeError and no     *)
(* request is issued.                                                     *)
C10_ThreeMetricPointOperations ==
    \A s \in Slots :
        /\ ( /\ calls[s].pc = "done"
             /\ calls[s].op \in {"getMetricPoints", "addMetricPoint",
                                 "deleteMetricPoint"} ) =>
               /\ calls[s].sent = 1
               /\ calls[s].req.method
                    = Endpoint(calls[s].op, calls[s].args).method
               /\ calls[s].req.url = Endpoint(calls[s].op, calls[s].args).path
               /\ StartsWith(calls[s].req.url,
                             "/v1/metrics/" \o ToStr(Arg(calls[s], 1))
                               \o "/points")
        /\ (calls[s].pc = "done" /\ calls[s].op = "getMetricPoint") =>
               /\ calls[s].sent = 0
               /\ calls[s].req = NoRequest
               /\ calls[s].outcome.kind = "throw"
               /\ calls[s].outcome.value.name = "TypeError"

C10_Witness ==
    \E s \in Slots :
        /\ Resolved(calls[s])
        /\ calls[s].op = "deleteMetricPoint"
        /\ calls[s].req.url = "/v1/metrics/groups/points/1"
        /\ Returned(calls[s], Bool(TRUE))

(* C11: every request of every operation carries the X-Cachet-Token       *)
(* header with exactly the token given to the constructor, whatever the   *)
(* operation, its arguments and the operations before it.                 *)
C11_TokenOnEveryRequest ==
    \A s \in Slots :
        (Started(calls[s]) /\ calls[s].sent > 0) =>
            /\ calls[s].req.headers.t = "object"
            /\ Len(calls[s].req.headers.e) = 1
            /\ Prop(calls[s].req.headers, "X-Cachet-Token")
                 = Prop(construction.options, "apiToken")

C11_Witness ==
    \E s \in Slots :
        /\ nCalls = 3
        /\ Started(calls[s])
        /\ calls[s].op = "addIncident"
        /\ Prop(calls[s].req.headers, "X-Cachet-Token") = Str(ApiToken)

(* C16: constructing a client issues no request: none is observed before  *)
(* the first operation is invoked.                                        *)
C16_NoRequestAtConstruction ==
    nCalls = 0 =>
        /\ nRequests = 0
        /\ \A s \in Slots : calls[s].sent = 0 /\ calls[s].req = NoRequest

C16_Witness ==
    /\ construction.pc = "ok"
    /\ client.t = "client"
    /\ nCalls = 0
    /\ nRequests = 0

(* A part of the structured response counts as present when it is there   *)
(* and not empty.                                                         *)
Present(v) == v \notin {Undefined, Null, Str("")}

(* The text after "Unable to <METHOD> <path>: " in a thrown Error. *)
DiagnosticIs(c, text) ==
    c.outcome.value.message
      = "Unable to " \o c.req.method \o " " \o c.req.url \o ": " \o text

(* C17: when the rejection carries a response, the diagnostic is the      *)
(* status (followed by a space), the status text (followed by " | ") and  *)
(* the JSON of the body, in this order, each left out when absent.        *)
C17_DiagnosticFromResponse ==
    \A s \in Slots :
        (Rejected(calls[s]) /\ Present(calls[s].settle.value.response)) =>
            LET response == calls[s].settle.value.response
                status == Prop(response, "status")
                statusText == Prop(response, "statusText")
                body == Prop(response, "data")
            IN  DiagnosticIs(calls[s],
                    (IF Present(status) THEN ToString(status.v) \o " " ELSE "")
                 \o (IF Present(statusText) THEN statusText.v \o " | " ELSE "")
                 \o (IF Present(body) THEN JSONstringify(body) ELSE ""))

C17_Witness ==
    \E s \in Slots :
        /\ Rejected(calls[s])
        /\ calls[s].op = "getMetrics"
        /\ calls[s].outcome.value.message
             = "Unable to GET /v1/metrics: "
                 \o "404 Not Found | {\"errors\":[\"Not found\"]}"

(* C18: when the rejection carries no response, the diagnostic is exactly *)
(* the string form of the rejection value.                                *)
C18_DiagnosticFallsBack ==
    \A s \in Slots :
        (Rejected(calls[s]) /\ calls[s].settle.value.response = Undefined) =>
            LET e == calls[s].settle.value
            IN  DiagnosticIs(calls[s],
                    IF e.message = "" THEN e.name
                    ELSE e.name \o ": " \o e.message)

C18_Witness ==
    \E s \in Slots :
        /\ Rejected(calls[s])
        /\ calls[s].outcome.value.message
             = "Unable to DELETE /v1/subscribers/1: Error: Network Error"

(* C19: on a failure the original transport error is logged exactly once, *)
(* before the normalized error is raised: request issued, transport       *)
(* rejects, original error logged, normalized error raised.               *)
C19_LoggedOnceBeforeRaise ==
    /\ nLogged <= nRequests
    /\ \A s \in Slots :
          Rejected(calls[s]) =>
              calls[s].events
                = << Event("request", Str(calls[s].req.url)),
                     Event("reject", calls[s].settle.value),
                     Event("log", calls[s].settle.value),
                     Event("throw", calls[s].outcome.value) >>

C19_Witness ==
    \E s \in Slots :
        /\ Rejected(calls[s])
        /\ nLogged = 2
        /\ calls[s].events[3] = Event("log", Err("Error", "Network Error", Undefined))

(* C20: the client is immutable after construction: no operation, won or  *)
(* lost, changes its options, its base URL or its header, and none leaves *)
(* a url, a response or an error on it.                                   *)
C20_ClientImmutable ==
    [][ construction.pc # "new" =>
          /\ client' = client
          /\ construction' = construction ]_vars

C20_Witness ==
    /\ client = [t |-> "client",
                 options |-> construction.options,
                 api |-> [baseURL |-> Str(BaseUrl),
                          headers |-> Obj(<<KV("X-Cachet-Token",
                                               Str(ApiToken))>>)]]
    /\ nCalls = 3
    /\ \E s \in Slots : Rejected(calls[s])

(* What an operation comes to when it runs alone: a function of its own  *)
(* arguments and of what its own request settled with.                    *)
OutcomeAlone(op, args, settle) ==
    LET row == Endpoint(op, args)
        envelope == Prop(settle.value, "data")
        raw == /\ op \in {"getVersion", "getComponents", "getComponentGroups",
                          "getIncidents", "getIncidentUpdates", "getMetrics"}
               /\ Truthy(IF op = "getIncidentUpdates"
                         THEN args[2] ELSE args[1])
    IN  CASE settle.kind = "reject" ->
               [kind |-> "throw",
                value |-> Err("Error",
                              "Unable to " \o row.method \o " " \o row.path
                                \o ": " \o extraErrorText(settle.value),
                              Undefined)]
          [] settle.kind = "resolve" /\ op \in DeleteOps ->
               [kind |-> "return", value |-> Bool(TRUE)]
          [] settle.kind = "resolve" /\ op \notin DeleteOps /\ raw ->
               [kind |-> "return", value |-> envelope]
          [] settle.kind = "resolve" /\ op \notin DeleteOps /\ ~raw ->
               IF CanRead(envelope)
               THEN [kind |-> "return", value |-> Prop(envelope, "data")]
               ELSE [kind |-> "throw",
                     value |-> Err("TypeError",
                                   "Cannot read property 'data' of "
                                     \o ToStr(envelope),
                                   Undefined)]

(* C12: operations in flight together on one client do not interfere: a   *)
(* step of one leaves the other's frame alone, and each ends as it would  *)
(* have alone, its error naming its own method and path.                  *)
C12_NoInterference ==
    /\ [](\A s \in Slots :
             calls[s].pc = "done" =>
                 calls[s].outcome
                   = OutcomeAlone(calls[s].op, calls[s].args, calls[s].settle))
    /\ [][\A s \in Slots :
             calls'[s] # calls[s] =>
                 \A t \in Slots \ {s} : calls'[t] = calls[t]]_vars

C12_Witness ==
    \E s \in Slots, t \in Slots :
        /\ Rejected(calls[s])
        /\ calls[s].op = "getComponent"
        /\ calls[s].outcome.value.message
             = "Unable to GET /v1/components/1: Error: Network Error"
        /\ calls[t].pc = "awaiting"
        /\ calls[t].op = "deleteComponent"
        /\ calls[t].url = "/v1/components/groups"

(* The path an operation is aimed at, by the endpoint table. *)
TargetPath(c) == Endpoint(c.op, c.args).path

(* A record that was created at the path and has been deleted since. *)
Gone(path) ==
    \E i \in 1..Len(service) : service[i].path = path /\ ~service[i].alive

(* The request never reached the service. *)
NetworkFailed(c) ==
    c.reply.kind = "reject" /\ c.reply.value.response = Undefined

(* A get of one record by id, for every family of the data model. *)
FamilyGets == GetOps \cup {"getMetricPoint", "getSubscriber"}

(* C13 as stated: in every family, the delete of a created record returns *)
(* true, and a get of that id afterwards fails with a request error.      *)
C13_DeleteThenGetFailsInEveryFamily ==
    \A s \in Slots :
        /\ (Resolved(calls[s]) /\ calls[s].op \in DeleteOps) =>
               /\ Returned(calls[s], Bool(TRUE))
               /\ Gone(TargetPath(calls[s]))
        /\ ( /\ calls[s].pc = "done"
             /\ calls[s].op \in FamilyGets
             /\ Gone(TargetPath(calls[s])) ) =>
               /\ calls[s].outcome.kind = "throw"
               /\ IsRequestError(calls[s].outcome.value, "GET",
                                 TargetPath(calls[s]))

(* C13 amended: in every family that has a get operation (components,     *)
(* component groups, incidents, incident updates, metrics), the delete of *)
(* a created record returns true and a get of that id afterwards fails    *)
(* with a request error; every delete of a created record returns true.   *)
C13_DeleteThenGetFails ==
    \A s \in Slots :
        /\ (Resolved(calls[s]) /\ calls[s].op \in DeleteOps) =>
               /\ Returned(calls[s], Bool(TRUE))
               /\ Gone(TargetPath(calls[s]))
        /\ ( /\ calls[s].pc = "done"
             /\ calls[s].op \in GetOps
             /\ Gone(TargetPath(calls[s])) ) =>
               /\ calls[s].outcome.kind = "throw"
               /\ IsRequestError(calls[s].outcome.value, "GET",
                                 TargetPath(calls[s]))

C13_Witness ==
    \E s \in Slots :
        /\ calls[s].pc = "done"
        /\ calls[s].op = "getComponent"
        /\ Gone("/v1/components/1")
        /\ calls[s].outcome.value.message
             = "Unable to GET /v1/components/1: "
                 \o "404 Not Found | {\"errors\":[\"Not found\"]}"

(* What create gives: the payload is the request body, the record that    *)
(* comes back is the one the service holds under the id it assigned, and  *)
(* it carries every field that was sent.                                  *)
CreateEchoes(c) ==
    LET rec == c.outcome.value
        at == Holding(service, Collection(c.op, c.args) \o "/"
                                 \o ToStr(Prop(rec, "id")))
    IN  /\ c.req.data = Endpoint(c.op, c.args).body
        /\ c.outcome.kind = "return"
        /\ Present(Prop(rec, "id"))
        /\ \A k \in Keys(c.req.data) : Prop(rec, k) = Prop(c.req.data, k)
        /\ at # {}
        /\ \A i \in at : service[i].rec = rec

(* What get gives: the record the service holds at the path, which is the *)
(* created one as long as nothing updated it.                             *)
GetEchoes(c) ==
    /\ c.outcome.kind = "return"
    /\ \A i \in Holding(service, TargetPath(c)) :
          /\ c.outcome.value = service[i].rec
          /\ service[i].updated = Undefined =>
                c.outcome.value = service[i].created

(* C14 as stated: in every family, create then get by the returned id     *)
(* yields the record with the fields that were sent.                      *)
C14_CreateThenGetInEveryFamily ==
    \A s \in Slots :
        /\ (Resolved(calls[s]) /\ calls[s].op \in CreateOps) =>
               CreateEchoes(calls[s])
        /\ ( /\ calls[s].pc = "done"
             /\ calls[s].op \in FamilyGets
             /\ Holding(service, TargetPath(calls[s])) # {}
             /\ ~NetworkFailed(calls[s]) ) =>
               GetEchoes(calls[s])

(* C14 amended: in every family that has a get operation, create then get *)
(* by the returned id yields the record with the fields that were sent;   *)
(* in every family the create payload is the request body and the created *)
(* record comes back unchanged.                                           *)
C14_CreateThenGet ==
    \A s \in Slots :
        /\ (Resolved(calls[s]) /\ calls[s].op \in CreateOps) =>
               CreateEchoes(calls[s])
        /\ ( /\ calls[s].pc = "done"
             /\ calls[s].op \in GetOps
             /\ Holding(service, TargetPath(calls[s])) # {}
             /\ ~NetworkFailed(calls[s]) ) =>
               /\ GetEchoes(calls[s])
               /\ calls[s].req.url = TargetPath(calls[s])

C14_Witness ==
    \E s \in Slots :
        /\ Resolved(calls[s])
        /\ calls[s].op = "getIncidentUpdate"
        /\ calls[s].args = <<Num(1), Num(1)>>
        /\ Returned(calls[s], Obj(<<KV("id", Num(1)), KV("name", Str("u"))>>))

(* A record shows an update: the fields the payload names have its        *)
(* values, the others the values they had before.                         *)
Reflects(rec, payload, prev) ==
    /\ \A k \in Keys(payload) : Prop(rec, k) = Prop(payload, k)
    /\ \A k \in Keys(prev) \ Keys(payload) : Prop(rec, k) = Prop(prev, k)

(* An update of one record by id, for the families of the data model:    *)
(* subscribers stand for the ones the client has no update for.           *)
FamilyUpdates == UpdateOps \cup {"updateSubscriber"}

(* What update gives: the record the service holds afterwards, with the   *)
(* payload's fields changed and the others kept.                          *)
UpdateReflects(c) ==
    LET at == Holding(service, TargetPath(c))
    IN  /\ Resolved(c)
        /\ at # {}
        /\ \A i \in at :
              /\ Returned(c, service[i].rec)
              /\ service[i].updated = Endpoint(c.op, c.args).body
              /\ Reflects(c.outcome.value, Endpoint(c.op, c.args).body,
                          service[i].prev)

(* What get gives after an update: the updated record.                    *)
GetReflects(c) ==
    \A i \in Holding(service, TargetPath(c)) :
        service[i].updated.t = "object" =>
            /\ Returned(c, service[i].rec)
            /\ Reflects(c.outcome.value, service[i].updated, service[i].prev)

(* C15 as stated: in every family, the update of a created record returns *)
(* the updated record, and a get afterwards shows the updated fields and  *)
(* the other fields as they were.                                         *)
C15_UpdateThenGetInEveryFamily ==
    \A s \in Slots :
        /\ ( /\ calls[s].pc = "done"
             /\ calls[s].op \in FamilyUpdates
             /\ Endpoint(calls[s].op, calls[s].args).body.t = "object"
             /\ Holding(service, TargetPath(calls[s])) # {}
             /\ ~NetworkFailed(calls[s]) ) =>
               UpdateReflects(calls[s])
        /\ (Resolved(calls[s]) /\ calls[s].op \in GetOps) =>
               GetReflects(calls[s])

(* C15 amended: in every family that has an update operation (components, *)
(* component groups, incidents, incident updates), the update of a        *)
(* created record returns the updated record, and a get afterwards shows  *)
(* the updated fields and the other fields as they were.                  *)
C15_UpdateThenGet ==
    \A s \in Slots :
        /\ ( /\ calls[s].pc = "done"
             /\ calls[s].op \in UpdateOps
             /\ Endpoint(calls[s].op, calls[s].args).body.t = "object"
             /\ Holding(service, TargetPath(calls[s])) # {}
             /\ ~NetworkFailed(calls[s]) ) =>
               UpdateReflects(calls[s])
        /\ (Resolved(calls[s]) /\ calls[s].op \in GetOps) =>
               GetReflects(calls[s])

C15_Witness ==
    \E s \in Slots :
        /\ Resolved(calls[s])
        /\ calls[s].op = "getComponent"
        /\ \E i \in Holding(service, "/v1/components/1") :
              /\ service[i].updated = Obj(<<KV("name", Str("u"))>>)
              /\ service[i].created
                   = Obj(<<KV("id", Num(1)), KV("name", Str("n")),
                           KV("status", Num(4))>>)
        /\ Returned(calls[s], Obj(<<KV("id", Num(1)), KV("name", Str("u")),
                                    KV("status", Num(4))>>))

(* The operations that take an id: the ones on one record, and the ones  *)
(* under a parent.                                                        *)
IdOps ==
    GetOps \cup UpdateOps \cup DeleteOps
      \cup {"getIncidentUpdates", "addIncidentUpdate", "getMetricPoints",
            "addMetricPoint"}

(* The string form of an id as it is given: a number in decimal, a string *)
(* as it is, an absent one as the word undefined.                         *)
IdText(id) ==
    CASE id.t = "number" -> ToString(id.v)
      [] id.t = "string" -> id.v
      [] id.t = "undefined" -> "undefined"

(* The fixed prefix of the path of an id-taking operation, and for a     *)
(* nested one the name of its sub-collection.                             *)
Prefix(op) ==
    CASE op \in {"getComponent", "updateComponent", "deleteComponent"} ->
           "/v1/components"
      [] op \in {"getComponentGroup", "updateComponentGroup",
                 "deleteComponentGroup"} ->
           "/v1/components/groups"
      [] op \in {"getIncident", "updateIncident", "deleteIncident",
                 "getIncidentUpdates", "getIncidentUpdate",
                 "addIncidentUpdate", "updateIncidentUpdate",
                 "deleteIncidentUpdate"} ->
           "/v1/incidents"
      [] op \in {"getMetric", "deleteMetric", "getMetricPoints",
                 "addMetricPoint", "deleteMetricPoint"} ->
           "/v1/metrics"
      [] op = "deleteSubscriber" -> "/v1/subscribers"

SubCollection(op) ==
    IF op \in {"getMetricPoints", "addMetricPoint", "deleteMetricPoint"}
    THEN "points" ELSE "updates"

(* The path formed from the ids alone. *)
PathOfIds(op, args) ==
    IF op \in NestedOps
    THEN Prefix(op) \o "/" \o IdText(args[1]) \o "/" \o SubCollection(op)
           \o (IF op \in GetOps \cup UpdateOps \cup DeleteOps
               THEN "/" \o IdText(args[2]) ELSE "")
    ELSE Prefix(op) \o "/" \o IdText(args[1])

(* C21: identifiers are opaque: an id-taking operation requests the fixed *)
(* prefix, "/", and the string form of the id it was given (the parent id *)
(* likewise for a nested resource), whatever the id is, absent or equal   *)
(* to a sub-collection name included, and it issues exactly one request   *)
(* to that path.                                                          *)
C21_IdsAreOpaque ==
    \A s \in Slots :
        (calls[s].pc # "idle" /\ calls[s].op \in IdOps) =>
            /\ calls[s].sent = 1
            /\ calls[s].req.url = PathOfIds(calls[s].op, calls[s].args)
            /\ calls[s].events[1]
                 = Event("request",
                         Str(PathOfIds(calls[s].op, calls[s].args)))
            /\ CountEvents(calls[s].events, "request") = 1

C21_Witness ==
    \E s \in Slots :
        /\ calls[s].pc = "done"
        /\ calls[s].op = "deleteIncidentUpdate"
        /\ calls[s].args = <<Undefined, Str("groups")>>
        /\ calls[s].sent = 1
        /\ calls[s].req.url = "/v1/incidents/undefined/updates/groups"

(* C22: an invocation whose transport call has settled ends in exactly    *)
(* one outcome, a returned value or a raised error and never both; when   *)
(* the transport call resolved, createError was not invoked: nothing was  *)
(* logged and no normalized error was made.                               *)
C22_ExactlyOneOutcome ==
    /\ [](\A s \in Slots :
            calls[s].settle.kind # "none" =>
                /\ calls[s].pc = "done"
                /\ CountEvents(calls[s].events, "return")
                     + CountEvents(calls[s].events, "throw") = 1
                /\ calls[s].outcome.kind \in {"return", "throw"}
                /\ CountEvents(calls[s].events, calls[s].outcome.kind) = 1
                /\ calls[s].events[Len(calls[s].events)]
                     = Event(calls[s].outcome.kind, calls[s].outcome.value)
                /\ calls[s].settle.kind = "resolve" =>
                      /\ CountEvents(calls[s].events, "log") = 0
                      /\ ~IsRequestError(calls[s].outcome.value,
                                         calls[s].req.method,
                                         calls[s].req.url)
                /\ calls[s].outcome.kind = "return" =>
                      calls[s].settle.kind = "resolve")
    /\ [][ \A s \in Slots :
             (calls[s].pc = "awaiting" /\ calls'[s].settle.kind = "resolve")
                => nLogged' = nLogged ]_vars

C22_Witness ==
    \E s \in Slots :
        /\ Resolved(calls[s])
        /\ calls[s].op = "addSubscriber"
        /\ calls[s].outcome.kind = "return"
        /\ Len(calls[s].events) = 3
        /\ nRequests = 2
        /\ nLogged = 1

(* A response object with no status, no status text and no body. *)
EmptyResponse(response) ==
    /\ response.t = "object"
    /\ ~Present(Prop(response, "status"))
    /\ ~Present(Prop(response, "statusText"))
    /\ ~Present(Prop(response, "data"))

(* C23: for every value the transport rejects with, createError returns   *)
(* an Error (the invocation raises that Error, not an error of            *)
(* createError's own); when the value carries a response with no status,  *)
(* no status text and no body, the diagnostic is the empty string and not *)
(* the string form of the value.                                          *)
C23_CreateErrorNeverThrows ==
    \A s \in Slots :
        Rejected(calls[s]) =>
            /\ calls[s].outcome.kind = "throw"
            /\ calls[s].outcome.value.t = "error"
            /\ calls[s].outcome.value.name = "Error"
            /\ StartsWith(calls[s].outcome.value.message, "Unable to ")
            /\ CountEvents(calls[s].events, "log") = 1
            /\ EmptyResponse(calls[s].settle.value.response) =>
                  /\ DiagnosticIs(calls[s], "")
                  /\ ~DiagnosticIs(calls[s], toString(calls[s].settle.value))

C23_Witness ==
    \E s \in Slots :
        /\ Rejected(calls[s])
        /\ calls[s].settle.value = Err("Error", "Request failed", Obj(<<>>))
        /\ calls[s].outcome.value
             = Err("Error", "Unable to PUT /v1/incidents/1: ", Undefined)

====
